---- MODULE Spec2Model ----
(***************************************************************************)
(* QMC2 RC4 stream cipher engine (um_crypto/qmc/src/v2_rc4/cipher.rs).     *)
(*                                                                         *)
(* The engine owns a key, a hash and a keystream cache.  decrypt() XORs a  *)
(* byte range of the logical stream in place: the first 128 bytes with a   *)
(* per-byte derived key byte, the rest in blocks of 5120 bytes with the    *)
(* keystream cache read from a per-block skip.                             *)
(*                                                                         *)
(* One or two callers share one engine; each owns its buffer and issues    *)
(* decrypt calls on the whole buffer or on its head [0, cut) and tail      *)
(* [cut, len).  A call advances in the steps of decrypt(): the first       *)
(* segment, the unaligned block, and one loop iteration per step.          *)
(***************************************************************************)
EXTENDS Integers, Sequences, FiniteSets, TLC

VARIABLES
    new_key,     \* the argument given to QMC2RC4::new
    status,      \* "unbuilt" | "ready" | "panicked": the outcome of new
    key,         \* QMC2RC4.key
    hash,        \* QMC2RC4.hash
    key_stream,  \* QMC2RC4.key_stream
    build,       \* the compile profile: overflow checks, debug assertions
    scen,        \* per caller: the buffer's logical offset, length, cut
    data,        \* per caller: the buffer it owns
    pc,          \* per caller: position inside decrypt
    arg,         \* per caller: the current call's slice [lo, hi) and offset
    offset,      \* per caller: decrypt's local `offset`
    pos,         \* per caller: where decrypt's local `buffer` starts in data
    pre,         \* per caller: the buffer as it was when the call started
    hist,        \* per caller: the kinds of the calls made so far
    seg,         \* per caller: the last slice handed to a segment transform
    raced        \* per caller: another call was in flight during a step of this one

engine_vars == <<new_key, status, key, hash, key_stream, build>>
caller_vars == <<scen, data, pc, arg, offset, pos, pre, hist, seg, raced>>
vars == <<new_key, status, key, hash, key_stream, build,
          scen, data, pc, arg, offset, pos, pre, hist, seg, raced>>

----------------------------------------------------------------------------
(* Program constants *)

FIRST_SEGMENT_SIZE == 128

OTHER_SEGMENT_SIZE == 5120

RC4_STREAM_CACHE_SIZE == OTHER_SEGMENT_SIZE + 512

(* Bounds of the model *)

\* usize is modelled UsizeBits wide; 2^16 and 2^64 leave the same residue
\* (4096) modulo OTHER_SEGMENT_SIZE.
UsizeBits == 16

\* decrypt calls one caller makes on its buffer
MaxCalls == 2

\* full blocks in the longest buffer
MaxFullBlocks == 2

UsizeModulus == 2 ^ UsizeBits

UsizeMax == UsizeModulus - 1

Min(a, b) == IF a <= b THEN a ELSE b

----------------------------------------------------------------------------
(* u8 XOR *)

Xor4 == [a \in 0..15 |-> [b \in 0..15 |->
            LET bit(x, k) == (x \div (2 ^ k)) % 2
            IN    ((bit(a, 0) + bit(b, 0)) % 2)
              + 2 * ((bit(a, 1) + bit(b, 1)) % 2)
              + 4 * ((bit(a, 2) + bit(b, 2)) % 2)
              + 8 * ((bit(a, 3) + bit(b, 3)) % 2)]]

Xor8 == [a \in 0..255 |-> [b \in 0..255 |->
            16 * Xor4[a \div 16][b \div 16] + Xor4[a % 16][b % 16]]]

\* a ^ b on u8
Xor(a, b) == Xor8[a][b]

----------------------------------------------------------------------------
(* Collaborators: v2_rc4::hash, v2_rc4::segment_key, v2_rc4::rc4.  They    *)
(* are pure and deterministic; their bodies are given by the design        *)
(* document, not by cipher.rs.                                             *)

HASH_MODULUS == 65536

RECURSIVE hash_from(_, _, _)
hash_from(k, i, h) ==
    IF i > Len(k) THEN h
    ELSE IF k[i] = 0 THEN hash_from(k, i + 1, h)
    ELSE LET next == (h * k[i]) % HASH_MODULUS
         IN  IF next = 0 \/ next <= h THEN h ELSE hash_from(k, i + 1, next)

\* key_hash(key) -> scalar
key_hash(k) == hash_from(k, 1, 1)

\* derive_segment_key(index, seed_byte, hash) -> integer
get_segment_key(id, seed, h) ==
    IF seed = 0 THEN 0 ELSE (h * 100) \div ((id + 1) * seed)

\* The keystream generator indexes its state modulo the key length: on an
\* empty key the remainder has a zero divisor and the generator panics.
rc4_never_panics(k) == FALSE

rc4_panics(k) == Len(k) = 0

\* keystream_generate(key, length) -> bytes
rc4_derive(k, len) ==
    LET n == Len(k)
    IN  [i \in 1..len |->
            IF n = 0 THEN 0
            ELSE ((k[((i - 1) % n) + 1] * (((i - 1) \div n) + 3))
                  + (7 * i) + ((i * i) % 251)) % 256]

----------------------------------------------------------------------------
(* QMC2RC4 *)

NoEngine == [key |-> <<>>, hash |-> 0, key_stream |-> <<>>]

\* QMC2RC4::new: the engine it returns
QMC2RC4_new(k) ==
    [key |-> k,
     hash |-> key_hash(k),
     key_stream |-> rc4_derive(k, RC4_STREAM_CACHE_SIZE)]

\* the engine as it is now
self == [key |-> key, hash |-> hash, key_stream |-> key_stream]

\* process_first_segment with the datum index taken from 0 instead of offset
process_first_segment_relative(e, block, off) ==
    LET n == Len(e.key)
    IN  [i \in 1..Len(block) |->
            LET idx == get_segment_key(i - 1, e.key[((i - 1) % n) + 1], e.hash) % n
            IN  Xor(block[i], e.key[idx + 1])]

process_first_segment(e, block, off) ==
    LET n == Len(e.key)
    IN  [i \in 1..Len(block) |->
            LET o   == off + i - 1
                idx == get_segment_key(o, e.key[(o % n) + 1], e.hash) % n
            IN  Xor(block[i], e.key[idx + 1])]

\* the skip of the block that holds offset off: get_segment_key(...) & 0x1FF
segment_skip(e, off) ==
    LET n    == Len(e.key)
        id   == off \div OTHER_SEGMENT_SIZE
        seed == e.key[(id % n) + 1]
    IN  get_segment_key(id, seed, e.hash) % 512

\* the keystream index paired with datum i (0-based) of a slice at off
key_stream_index(e, off, i) ==
    segment_skip(e, off) + (off % OTHER_SEGMENT_SIZE) + i

\* the data bytes the zip leaves unpaired: the keystream iterator is exhausted
unpaired(e, len, off) ==
    LET first_missing == RC4_STREAM_CACHE_SIZE - key_stream_index(e, off, 0)
    IN  IF len > first_missing THEN len - first_missing ELSE 0

\* process_other_segment reading the keystream from skip alone
process_other_segment_no_block_offset(e, block, off) ==
    LET skip == segment_skip(e, off)
    IN  [i \in 1..Len(block) |->
            IF skip + i - 1 < RC4_STREAM_CACHE_SIZE
            THEN Xor(block[i], e.key_stream[skip + i])
            ELSE block[i]]

\* process_other_segment adding the keystream byte instead of XORing it
process_other_segment_add(e, block, off) ==
    LET first == key_stream_index(e, off, 0)
    IN  [i \in 1..Len(block) |->
            IF first + i - 1 < RC4_STREAM_CACHE_SIZE
            THEN (block[i] + e.key_stream[first + i]) % 256
            ELSE block[i]]

\* the zip ends with the shorter side: a datum past the end of the keystream
\* cache is left as it is
process_other_segment(e, block, off) ==
    LET first == key_stream_index(e, off, 0)
    IN  [i \in 1..Len(block) |->
            IF first + i - 1 < RC4_STREAM_CACHE_SIZE
            THEN Xor(block[i], e.key_stream[first + i])
            ELSE block[i]]

\* debug_assert!(data.len() <= OTHER_SEGMENT_SIZE - block_offset)
debug_assert_holds(len, off) ==
    len <= OTHER_SEGMENT_SIZE - (off % OTHER_SEGMENT_SIZE)

----------------------------------------------------------------------------
(* decrypt, one step at a time.  A frame s holds decrypt's locals: the     *)
(* caller's buffer, the remaining slice [pos, hi) of it, the local offset  *)
(* and the position in the function.                                       *)

\* a slice handed to a segment transform: where, how long, how many of its
\* bytes the zip left unpaired, and whether the transform ran (the debug
\* assertion, when compiled in, held)
NoSeg == [kind |-> "none", offset |-> 0, len |-> 0, unpaired |-> 0, ran |-> FALSE]

\* block written back in place at data[p + 1 .. p + Len(block)]
Splice(d, p, block) ==
    SubSeq(d, 1, p) \o block \o SubSeq(d, p + Len(block) + 1, Len(d))

\* lines 63-69: if offset < FIRST_SEGMENT_SIZE { ... }
first_step(e, s) ==
    IF s.offset < FIRST_SEGMENT_SIZE
    THEN LET n     == Min(FIRST_SEGMENT_SIZE - s.offset, s.hi - s.pos)
             block == SubSeq(s.data, s.pos + 1, s.pos + n)
             sg    == [kind |-> "first", offset |-> s.offset, len |-> n,
                       unpaired |-> 0, ran |-> TRUE]
         IN  IF Len(e.key) = 0 /\ n > 0
             THEN [s EXCEPT !.pc = "panicked", !.pos = s.pos + n,
                            !.seg = [sg EXCEPT !.ran = FALSE]]
             ELSE [s EXCEPT !.data = Splice(s.data, s.pos,
                                        process_first_segment(e, block, s.offset)),
                            !.pos = s.pos + n,
                            !.offset = s.offset + n,
                            !.pc = "align",
                            !.seg = sg]
    ELSE [s EXCEPT !.pc = "align"]

\* split_at_mut(n); process_other_segment(block, offset); offset += n
other_step(e, b, s, n, kind) ==
    LET block == SubSeq(s.data, s.pos + 1, s.pos + n)
        sum   == s.offset + n
    IN  IF Len(e.key) = 0
        THEN [s EXCEPT !.pc = "panicked", !.pos = s.pos + n,
                       !.seg = [kind |-> kind, offset |-> s.offset, len |-> n,
                                unpaired |-> 0, ran |-> FALSE]]
        ELSE LET sg == [kind |-> kind, offset |-> s.offset, len |-> n,
                        unpaired |-> unpaired(e, n, s.offset), ran |-> TRUE]
             IN  IF b.debug_assertions /\ ~debug_assert_holds(n, s.offset)
                 THEN [s EXCEPT !.pc = "panicked", !.pos = s.pos + n,
                                !.seg = [sg EXCEPT !.unpaired = 0, !.ran = FALSE]]
                 ELSE LET d2 == Splice(s.data, s.pos,
                                       process_other_segment(e, block, s.offset))
                      IN  IF sum > UsizeMax /\ b.overflow_checks
                          THEN [s EXCEPT !.data = d2, !.pos = s.pos + n,
                                         !.pc = "panicked", !.seg = sg]
                          ELSE [s EXCEPT !.data = d2, !.pos = s.pos + n,
                                         !.offset = sum % UsizeModulus,
                                         !.pc = "loop", !.seg = sg]

\* lines 71-80: match offset % OTHER_SEGMENT_SIZE { 0 => {}, excess => ... }
align_step(e, b, s) ==
    LET excess == s.offset % OTHER_SEGMENT_SIZE
    IN  IF excess = 0
        THEN [s EXCEPT !.pc = "loop"]
        ELSE other_step(e, b, s,
                        Min(OTHER_SEGMENT_SIZE - excess, s.hi - s.pos), "align")

\* lines 82-88: while !buffer.is_empty() { ... }
loop_step(e, b, s) ==
    IF s.pos = s.hi
    THEN [s EXCEPT !.pc = "done"]
    ELSE other_step(e, b, s, Min(OTHER_SEGMENT_SIZE, s.hi - s.pos), "loop")

decrypt_step(e, b, s) ==
    CASE s.pc = "first" -> first_step(e, s)
      [] s.pc = "align" -> align_step(e, b, s)
      [] s.pc = "loop"  -> loop_step(e, b, s)
      [] OTHER          -> s

RECURSIVE decrypt_run(_, _, _)
decrypt_run(e, b, s) ==
    IF s.pc \in {"done", "panicked"} THEN s
    ELSE decrypt_run(e, b, decrypt_step(e, b, s))

\* decrypt(&mut d[lo..hi], off) run to its end on engine e under build b
decrypt(e, b, d, lo, hi, off) ==
    decrypt_run(e, b, [pc |-> "first", data |-> d, hi |-> hi, pos |-> lo,
                       offset |-> off, seg |-> NoSeg])

----------------------------------------------------------------------------
(* Inputs *)

Keys == {<<>>, <<3, 250, 77>>, <<0, 200>>}

\* dev (both checks), release (none), release with debug assertions
Builds == {[overflow_checks |-> TRUE,  debug_assertions |-> TRUE],
           [overflow_checks |-> FALSE, debug_assertions |-> FALSE],
           [overflow_checks |-> FALSE, debug_assertions |-> TRUE]}

\* the bytes from offset UsizeMax - 2 to the end of its block
ToBlockEnd == OTHER_SEGMENT_SIZE - ((UsizeMax - 2) % OTHER_SEGMENT_SIZE)

\* a caller's buffer: off is the logical offset of its first byte, cut the
\* split point of the head and tail calls, pat the pattern of its bytes
Scenario(off, len, cut, pat) == [off |-> off, len |-> len, cut |-> cut, pat |-> pat]

\* buffers across the two thresholds
SmallScenarios ==
    {Scenario(FIRST_SEGMENT_SIZE - 8, 12, 3, 0),
     Scenario(OTHER_SEGMENT_SIZE - 6, 12, 4, 1)}

Scenarios ==
    SmallScenarios \cup
    {Scenario(0, 0, 0, 0),
     Scenario(300, 0, 0, 0),
     \* the shape of test_qmc2_header: 256 bytes at offset 0
     Scenario(0, 256, FIRST_SEGMENT_SIZE, 0),
     Scenario(0, 256, FIRST_SEGMENT_SIZE, 1),
     Scenario(0, 256, 1, 0),
     Scenario(0, 256, FIRST_SEGMENT_SIZE + 1, 1),
     Scenario(5, 20, 20, 0),
     Scenario(FIRST_SEGMENT_SIZE - 1, 2, 1, 1),
     Scenario(300, 10, 0, 0),
     Scenario(OTHER_SEGMENT_SIZE - 6, 12, 6, 0),
     Scenario(OTHER_SEGMENT_SIZE - 6, 12, 7, 1),
     Scenario(2 * OTHER_SEGMENT_SIZE, 7, 2, 0),
     \* the first segment, the rest of block 0, the start of block 1
     Scenario(0, OTHER_SEGMENT_SIZE + 5, FIRST_SEGMENT_SIZE + 100, 0),
     Scenario(0, OTHER_SEGMENT_SIZE + 5, OTHER_SEGMENT_SIZE, 1),
     \* 3 bytes of a block, MaxFullBlocks full blocks, a partial block
     Scenario(OTHER_SEGMENT_SIZE - 3, 3 + MaxFullBlocks * OTHER_SEGMENT_SIZE + 9,
              3 + OTHER_SEGMENT_SIZE + 50, 0),
     Scenario(OTHER_SEGMENT_SIZE - 3, 3 + MaxFullBlocks * OTHER_SEGMENT_SIZE + 9,
              3 + OTHER_SEGMENT_SIZE, 1),
     \* offset + len reaches the top of usize
     Scenario(UsizeMax - 1, 4, 1, 0),
     Scenario(UsizeMax - 3, 4, 2, 0),
     Scenario(UsizeMax, 1, 0, 1),
     \* ... and goes on for a block and 4 bytes past it
     Scenario(UsizeMax - 2, ToBlockEnd + OTHER_SEGMENT_SIZE + 4, 2, 0)}

\* the caller's bytes
Data(sc) == [i \in 1..sc.len |-> ((i * 89) + 41 + (sc.pat * i * i)) % 256]

\* the engines new() builds, one per key
Engines == [k \in Keys |-> QMC2RC4_new(k)]

Callers == DOMAIN pc

----------------------------------------------------------------------------
(* The state machine *)

InitWith(T, S) ==
    /\ new_key \in Keys
    /\ status = "unbuilt"
    /\ key = NoEngine.key
    /\ hash = NoEngine.hash
    /\ key_stream = NoEngine.key_stream
    /\ build \in Builds
    /\ scen \in [T -> S]
    /\ data = [t \in T |-> Data(scen[t])]
    /\ pc = [t \in T |-> "idle"]
    /\ arg = [t \in T |-> [lo |-> 0, hi |-> 0, offset |-> 0]]
    /\ offset = [t \in T |-> 0]
    /\ pos = [t \in T |-> 0]
    /\ pre = [t \in T |-> <<>>]
    /\ hist = [t \in T |-> <<>>]
    /\ seg = [t \in T |-> NoSeg]
    /\ raced = [t \in T |-> FALSE]

\* one caller
Init == InitWith({1}, Scenarios)

\* two callers sharing the engine
InitConc == InitWith({1, 2}, SmallScenarios)

\* QMC2RC4::new(key): RC4::new, rc4.derive, hash
new ==
    /\ status = "unbuilt"
    /\ IF rc4_panics(new_key)
       THEN /\ status' = "panicked"
            /\ UNCHANGED <<key, hash, key_stream>>
       ELSE /\ status' = "ready"
            /\ key' = QMC2RC4_new(new_key).key
            /\ hash' = QMC2RC4_new(new_key).hash
            /\ key_stream' = QMC2RC4_new(new_key).key_stream
    /\ UNCHANGED <<new_key, build>>
    /\ UNCHANGED caller_vars

\* the slice [lo, hi) of a call of this kind
SliceOf(sc, kind) ==
    CASE kind = "whole" -> [lo |-> 0, hi |-> sc.len]
      [] kind = "head"  -> [lo |-> 0, hi |-> sc.cut]
      [] kind = "tail"  -> [lo |-> sc.cut, hi |-> sc.len]

\* the caller reads its buffer in order: after the head comes the tail
NextKinds(h) ==
    IF h # <<>> /\ h[Len(h)] = "head" THEN {"tail"} ELSE {"whole", "head"}

\* cipher.decrypt(&mut data[lo..hi], scen.off + lo)
Call(t, kind) ==
    /\ status = "ready"
    /\ pc[t] \in {"idle", "done"}
    /\ Len(hist[t]) < MaxCalls
    /\ kind \in NextKinds(hist[t])
    /\ LET sl == SliceOf(scen[t], kind)
       IN  /\ scen[t].off + sl.lo <= UsizeMax
           /\ arg' = [arg EXCEPT ![t] = [lo |-> sl.lo, hi |-> sl.hi,
                                         offset |-> scen[t].off + sl.lo]]
           /\ offset' = [offset EXCEPT ![t] = scen[t].off + sl.lo]
           /\ pos' = [pos EXCEPT ![t] = sl.lo]
    /\ pre' = [pre EXCEPT ![t] = data[t]]
    /\ hist' = [hist EXCEPT ![t] = Append(hist[t], kind)]
    /\ seg' = [seg EXCEPT ![t] = NoSeg]
    /\ raced' = [raced EXCEPT ![t] = FALSE]
    /\ pc' = [pc EXCEPT ![t] = "first"]
    /\ UNCHANGED <<scen, data>>
    /\ UNCHANGED engine_vars

Frame(t) ==
    [pc |-> pc[t], data |-> data[t], hi |-> arg[t].hi, pos |-> pos[t],
     offset |-> offset[t], seg |-> seg[t]]

\* caller t is inside decrypt and has transformed part of its slice
InFlight(t) == pc[t] \in {"align", "loop"} /\ pos[t] > arg[t].lo /\ pos[t] < arg[t].hi

\* caller t takes decrypt's next step on the shared engine
Advance(t) ==
    LET s == decrypt_step(self, build, Frame(t))
    IN  /\ pc' = [pc EXCEPT ![t] = s.pc]
        /\ data' = [data EXCEPT ![t] = s.data]
        /\ pos' = [pos EXCEPT ![t] = s.pos]
        /\ offset' = [offset EXCEPT ![t] = s.offset]
        /\ seg' = [seg EXCEPT ![t] = s.seg]
        /\ raced' = [u \in Callers |->
                        \/ raced[u]
                        \/ /\ InFlight(t)
                           /\ \E v \in Callers \ {t} : InFlight(v) /\ u \in {t, v}]
        /\ UNCHANGED <<scen, arg, pre, hist>>

\* a step that regenerates the keystream cache from where it stopped
AdvanceConsuming(t) ==
    /\ Advance(t)
    /\ key_stream' = [i \in 1..Len(key_stream) |->
                          key_stream[(i % Len(key_stream)) + 1]]
    /\ UNCHANGED <<new_key, status, key, hash, build>>

\* a step that keeps a running hash in the engine
AdvanceRehashing(t) ==
    /\ Advance(t)
    /\ hash' = hash + 1
    /\ UNCHANGED <<new_key, status, key, key_stream, build>>

FirstSegmentConsuming(t) == pc[t] = "first" /\ AdvanceConsuming(t)

FirstSegment(t) ==
    /\ pc[t] = "first"
    /\ Advance(t)
    /\ UNCHANGED engine_vars

AlignBlock(t) ==
    /\ pc[t] = "align"
    /\ Advance(t)
    /\ UNCHANGED engine_vars

LoopRehashing(t) == pc[t] = "loop" /\ AdvanceRehashing(t)

Loop(t) ==
    /\ pc[t] = "loop"
    /\ Advance(t)
    /\ UNCHANGED engine_vars

Next ==
    \/ new
    \/ \E t \in Callers, kind \in {"whole", "head", "tail"} : Call(t, kind)
    \/ \E t \in Callers : FirstSegment(t)
    \/ \E t \in Callers : AlignBlock(t)
    \/ \E t \in Callers : Loop(t)

Spec == Init /\ [][Next]_vars

SpecConc == InitConc /\ [][Next]_vars

----------------------------------------------------------------------------
(* Properties *)

\* the engine new() built from new_key
E0 == Engines[new_key]

Ended(t) == pc[t] \in {"done", "panicked"}

\* the call caller t is in (or has just ended), run alone from the buffer it
\* started with
Alone(t) == decrypt(E0, build, pre[t], arg[t].lo, arg[t].hi, arg[t].offset)

\* the first-segment mask of absolute offset o
FirstMask(e, o) ==
    LET n == Len(e.key)
    IN  e.key[(get_segment_key(o, e.key[(o % n) + 1], e.hash) % n) + 1]

\* the other-segment mask of absolute offset o
OtherMask(e, o) ==
    LET n    == Len(e.key)
        id   == o \div OTHER_SEGMENT_SIZE
        skip == get_segment_key(id, e.key[(id % n) + 1], e.hash) % 512
    IN  e.key_stream[skip + (o % OTHER_SEGMENT_SIZE) + 1]

\* C1: decomposition invariance: once decrypt(buffer[0..cut], off) and then
\* decrypt(buffer[cut..], off + cut) have ended, the buffer holds the bytes one
\* decrypt(buffer, off) of the original buffer yields, and the second call
\* ends the way the single call does.
C1_DecompositionInvariance ==
    \A t \in Callers :
        (hist[t] = <<"head", "tail">> /\ Ended(t)) =>
            LET sc == scen[t]
                w  == decrypt(E0, build, Data(sc), 0, sc.len, sc.off)
            IN  data[t] = w.data /\ pc[t] = w.pc

\* head and tail calls have ended on a buffer of several full blocks and a
\* partial one, split inside a block
C1_Witness ==
    \E t \in Callers :
        /\ hist[t] = <<"head", "tail">>
        /\ pc[t] = "done"
        /\ scen[t].len > 2 * OTHER_SEGMENT_SIZE
        /\ scen[t].cut > 0 /\ scen[t].cut < scen[t].len
        /\ data[t] # Data(scen[t])

\* C2: decrypt is involutive: after two decrypt calls on the whole buffer with
\* the same offset, every byte has its original value.
C2_Involution ==
    \A t \in Callers :
        (hist[t] = <<"whole", "whole">> /\ Ended(t)) =>
            data[t] = Data(scen[t])

\* the second whole-buffer call has ended on bytes the first one changed
C2_Witness ==
    \E t \in Callers :
        /\ hist[t] = <<"whole", "whole">>
        /\ pc[t] = "done"
        /\ scen[t].len > OTHER_SEGMENT_SIZE
        /\ pre[t] # data[t]

\* C3: first-segment transform: once a call is past its first-segment step,
\* every byte of its slice whose absolute offset o is below 128 is its input
\* value XOR key[derive(o, key[o % n], hash) % n], and no slice handed to the
\* other-segment transform starts below 128.
C3_FirstSegmentTransform ==
    \A t \in Callers :
        (pc[t] \in {"align", "loop", "done", "panicked"}) =>
            /\ \A i \in 0..(Min(arg[t].hi - arg[t].lo, FIRST_SEGMENT_SIZE) - 1) :
                   LET o == arg[t].offset + i
                       j == arg[t].lo + i + 1
                   IN  o < FIRST_SEGMENT_SIZE =>
                           data[t][j] = Xor(pre[t][j], FirstMask(E0, o))
            /\ (seg[t].kind \in {"align", "loop"} /\ seg[t].len > 0) =>
                   seg[t].offset >= FIRST_SEGMENT_SIZE

\* a call that started inside the first segment, not at its start, has ended
\* past the 128-byte threshold
C3_Witness ==
    \E t \in Callers :
        /\ pc[t] = "done"
        /\ arg[t].offset > 0
        /\ arg[t].offset < FIRST_SEGMENT_SIZE
        /\ arg[t].offset + (arg[t].hi - arg[t].lo) > FIRST_SEGMENT_SIZE
        /\ data[t][arg[t].lo + 1] # pre[t][arg[t].lo + 1]

\* C4: other-segment transform: after decrypt(buffer, offset), every byte whose
\* absolute offset o = offset + i is at least 128 is its input value XOR
\* KeystreamCache[skip + (o % 5120)], with id = o / 5120 and
\* skip = derive(id, key[id % n], hash) & 0x1FF.
C4_OtherSegmentTransform ==
    \A t \in Callers :
        pc[t] = "done" =>
            \A i \in 0..(arg[t].hi - arg[t].lo - 1) :
                LET o == arg[t].offset + i
                    j == arg[t].lo + i + 1
                IN  o >= FIRST_SEGMENT_SIZE =>
                        data[t][j] = Xor(pre[t][j], OtherMask(E0, o))

C6_DecryptInfallible ==
    \A t \in Callers :
        /\ pc[t] # "panicked"
        /\ (pc[t] = "done" /\ arg[t].hi = arg[t].lo) => data[t] = pre[t]

\* C7: keystream-cache reads stay in bounds: every byte of a slice the
\* other-segment transform zipped was paired with a keystream byte at an
\* index below the cache length, so none was left untransformed.
C7_KeystreamReadsInBounds ==
    \A t \in Callers :
        (seg[t].kind \in {"align", "loop"} /\ seg[t].ran) =>
            /\ seg[t].unpaired = 0
            /\ seg[t].len > 0 =>
                   key_stream_index(self, seg[t].offset, seg[t].len - 1)
                       < RC4_STREAM_CACHE_SIZE

\* C8: concurrent calls on one shared engine: whenever a call has ended, its
\* buffer holds what that call yields when run alone, and it ended the same
\* way, whatever steps of other callers were interleaved with it.
C8_ConcurrentCallsIndependent ==
    \A t \in Callers :
        Ended(t) => (data[t] = Alone(t).data /\ pc[t] = Alone(t).pc)

\* both callers have ended calls whose steps were interleaved
C8_Witness ==
    /\ Cardinality(Callers) = 2
    /\ \A t \in Callers :
           pc[t] = "done" /\ raced[t] /\ data[t] # pre[t]

\* C9: the engine is immutable and memoryless: once built, its key, hash and
\* keystream cache are those set at construction, and every ended call left
\* in its buffer what (key, buffer, offset) alone determine, whichever calls
\* came before it.
C9_EngineImmutableMemoryless ==
    /\ status = "ready" => self = E0
    /\ status # "ready" => self = NoEngine
    /\ \A t \in Callers : Ended(t) => data[t] = Alone(t).data

\* a caller's second call has ended on the engine its first call used
C9_Witness ==
    \E t \in Callers :
        /\ Len(hist[t]) >= 2
        /\ pc[t] = "done"
        /\ status = "ready"
        /\ data[t] # pre[t]

\* C10: no other-segment call spans a block boundary: every slice handed to the
\* other-segment transform at offset p is at most 5120 - (p % 5120) long, and
\* every loop iteration starts at a multiple of 5120.
C10_NoSliceSpansBlock ==
    \A t \in Callers :
        (seg[t].kind \in {"align", "loop"}) =>
            /\ debug_assert_holds(seg[t].len, seg[t].offset)
            /\ seg[t].kind = "loop" => seg[t].offset % OTHER_SEGMENT_SIZE = 0

----------------------------------------------------------------------------
(* The same three statements, for the calls whose byte range ends at or     *)
(* below the top of usize: offset + len <= 2^UsizeBits.                     *)

InRange(t) == arg[t].offset + (arg[t].hi - arg[t].lo) <= UsizeModulus

InRange_OtherSegmentTransform ==
    \A t \in Callers :
        (pc[t] = "done" /\ InRange(t)) =>
            \A i \in 0..(arg[t].hi - arg[t].lo - 1) :
                LET o == arg[t].offset + i
                    j == arg[t].lo + i + 1
                IN  o >= FIRST_SEGMENT_SIZE =>
                        data[t][j] = Xor(pre[t][j], OtherMask(E0, o))

InRange_KeystreamReadsInBounds ==
    \A t \in Callers :
        (seg[t].kind \in {"align", "loop"} /\ InRange(t)) =>
            seg[t].ran /\ seg[t].unpaired = 0

InRange_NoSliceSpansBlock ==
    \A t \in Callers :
        (seg[t].kind \in {"align", "loop"} /\ InRange(t)) =>
            /\ debug_assert_holds(seg[t].len, seg[t].offset)
            /\ seg[t].kind = "loop" => seg[t].offset % OTHER_SEGMENT_SIZE = 0

====
